---- MODULE Spec2Model ----
(***************************************************************************)
(* notectl: a command-line note utility over one SQLite table.             *)
(*                                                                         *)
(* Every action below is one whole invocation of the program (one run of   *)
(* main), from flag parsing to process exit.  The state is the notes       *)
(* table, the wall clock, and what the last invocation did (its options,   *)
(* exit status, handle use, queries and printed rows).                     *)
(*                                                                         *)
(* Strings are sequences of one-character strings, so that strings.Split,  *)
(* strings.Join, fmt.Sprintf("%v") and strconv.Atoi are computed and not   *)
(* assumed.                                                                *)
(***************************************************************************)
EXTENDS Integers, Sequences, FiniteSets, TLC

VARIABLES rows, now, issued, dropped, cmd, args, exit, opened, closed,
          editor, note, stored, ran, out, prev, start

vars == <<rows, now, issued, dropped, cmd, args, exit, opened, closed,
          editor, note, stored, ran, out, prev, start>>

----------------------------------------------------------------------------
(* Bounds of the model. *)

\* most rows the table holds
MaxRows == 2
\* most notes inserted in one behaviour
MaxIssued == 3
\* last instant of the clock in the show specification
MaxTime == 4
\* last instant of the clock in the other specifications
MaxTimeNew == 1
\* size of the model calendar
DaysPerMonth == 2
MonthsPerYear == 2
\* year of instant 0
BaseYear == 2023

----------------------------------------------------------------------------
(* Strings. *)

DigitChars == <<"0", "1", "2", "3", "4", "5", "6", "7", "8", "9">>

IsDigit(c) == \E i \in 1..10 : DigitChars[i] = c

DigitVal(c) == (CHOOSE i \in 1..10 : DigitChars[i] = c) - 1

\* strings.Join(elems, sep)
RECURSIVE Join(_, _)
Join(elems, sep) ==
    IF Len(elems) = 0 THEN <<>>
    ELSE IF Len(elems) = 1 THEN elems[1]
    ELSE elems[1] \o sep \o Join(Tail(elems), sep)

\* strings.Split(s, sep) for a one-character separator: always at least one
\* segment, the empty string splitting into one empty segment
RECURSIVE SplitFrom(_, _, _)
SplitFrom(s, sep, cur) ==
    IF Len(s) = 0 THEN <<cur>>
    ELSE IF Head(s) = sep THEN <<cur>> \o SplitFrom(Tail(s), sep, <<>>)
    ELSE SplitFrom(Tail(s), sep, Append(cur, Head(s)))

Split(s, sep) == SplitFrom(s, sep, <<>>)

\* the value of a string of decimal digits
RECURSIVE DigitsVal(_, _)
DigitsVal(s, acc) ==
    IF Len(s) = 0 THEN acc
    ELSE DigitsVal(Tail(s), 10 * acc + DigitVal(Head(s)))

AllDigits(s) == Len(s) > 0 /\ \A i \in 1..Len(s) : IsDigit(s[i])

\* strconv.Atoi with its error dropped (day, _ = strconv.Atoi(..)): an
\* optional sign and decimal digits, anything else yields 0
Atoi(s) ==
    IF Len(s) > 0 /\ s[1] \in {"+", "-"}
    THEN IF AllDigits(Tail(s))
         THEN IF s[1] = "-" THEN 0 - DigitsVal(Tail(s), 0) ELSE DigitsVal(Tail(s), 0)
         ELSE 0
    ELSE IF AllDigits(s) THEN DigitsVal(s, 0) ELSE 0

----------------------------------------------------------------------------
(* tagList *)

\* tagList.String: fmt.Sprintf("%v", *s) of a []string, which prints the
\* elements separated by one space inside square brackets
TagString(s) == <<"[">> \o Join(s, <<" ">>) \o <<"]">>

\* tagList.Set: the list becomes the comma-separated fields of value
TagSet(value) == Split(value, ",")

Generic == <<"g", "e", "n", "e", "r", "i", "c">>

----------------------------------------------------------------------------
(* time.Time: the clock is a count of days in a small calendar. *)

Day(t) == (t % DaysPerMonth) + 1

Month(t) == ((t \div DaysPerMonth) % MonthsPerYear) + 1

Year(t) == BaseYear + (t \div (DaysPerMonth * MonthsPerYear))

----------------------------------------------------------------------------
(* The notes table. *)

RECURSIVE MaxId(_)
MaxId(rs) ==
    IF Len(rs) = 0 THEN 0
    ELSE LET m == MaxId(Tail(rs)) IN IF Head(rs).id > m THEN Head(rs).id ELSE m

\* a rowid that repeats the largest id of a table that has rows
NextRowidStale(rs) == IF Len(rs) = 0 THEN 1 ELSE MaxId(rs)

\* id INTEGER PRIMARY KEY without AUTOINCREMENT: SQLite gives a new row one
\* more than the largest id in the table, and 1 in an empty table
NextRowid(rs) == MaxId(rs) + 1

\* the row note.Save inserts
SaveRow(rs, t, text, tags) ==
    [id |-> NextRowid(rs), day |-> Day(t), month |-> Month(t), year |-> Year(t),
     timestamp |-> t, notetext |-> text, tags |-> TagString(tags)]

\* SELECT * FROM notes
showAllNotes(rs) == rs

\* SELECT * FROM notes WHERE id = (?)
showNoteByID(id, rs) == SelectSeq(rs, LAMBDA r : r.id = id)

\* SELECT ... WHERE day = (?) AND month = (?) AND year = (?), the month
\* taken from a first reading t1 of time.Now() and the year from a second
\* reading t2
showNoteByDay(day, t1, t2, rs) ==
    SelectSeq(rs, LAMBDA r : r.day = day /\ r.month = Month(t1) /\ r.year = Year(t2))

\* SELECT ... WHERE month = (?) AND year = (?), the year read from the clock
showNoteByMonth(month, t, rs) ==
    SelectSeq(rs, LAMBDA r : r.month = month /\ r.year = Year(t))

\* SELECT ... WHERE year = (?)
showNoteByYear(year, rs) == SelectSeq(rs, LAMBDA r : r.year = year)

\* showNoteByDate indexes d[0], d[1] and d[2] of strings.Split(date, "/"):
\* with fewer than three segments the index is out of range and the
\* process panics before the query
DateIndexable(date) == Len(Split(date, "/")) >= 3

\* the fields read as d/m/y whatever the -usa flag
DateFieldsNoUsa(date, usa) ==
    LET d == Split(date, "/") IN
    [day |-> Atoi(d[1]), month |-> Atoi(d[2]), year |-> Atoi(d[3])]

\* the day, month and year showNoteByDate queries for
DateFields(date, usa) ==
    LET d == Split(date, "/") IN
    IF usa THEN [day |-> Atoi(d[2]), month |-> Atoi(d[1]), year |-> Atoi(d[3])]
    ELSE [day |-> Atoi(d[1]), month |-> Atoi(d[2]), year |-> Atoi(d[3])]

showNoteByDate(date, usa, rs) ==
    LET f == DateFields(date, usa) IN
    SelectSeq(rs, LAMBDA r : r.day = f.day /\ r.month = f.month /\ r.year = f.year)

----------------------------------------------------------------------------
(* Process exit statuses. *)

\* main returned
ExitOk == 0
\* os.Exit(1) after PrintDefaults
ExitUsage == 1
\* an uncaught panic
ExitPanic == 2

NoNote == [built |-> FALSE]

NoArgs == [none |-> TRUE]

\* what an invocation leaves behind for the observer
Observe(c, a, ex, op, cl, ed, nt, st, rn, ot) ==
    /\ cmd' = c
    /\ args' = a
    /\ exit' = ex
    /\ opened' = op
    /\ closed' = cl
    /\ editor' = ed
    /\ note' = nt
    /\ stored' = st
    /\ ran' = rn
    /\ out' = ot
    /\ prev' = rows
    /\ start' = now

----------------------------------------------------------------------------
(* notectl new *)

\* newCommand.NFlag(): the number of flags that were set
NFlag(n, e, t) ==
    (IF n.set THEN 1 ELSE 0) + (IF e.set THEN 1 ELSE 0) + (IF t.set THEN 1 ELSE 0)

\* len(os.Args[2:]) == 0: nothing at all follows "new"
NoArguments(n, e, t, dd, rest) == NFlag(n, e, t) = 0 /\ ~dd /\ Len(rest) = 0

\* the usage exit of the new branch
NewUsage(n, e, t) == n.val = <<>> /\ NFlag(n, e, t) > 0 /\ ~e.val

\* whether the new branch calls captureFromEditor
NewUsesEditor(n, e, t, dd, rest) ==
    (NFlag(n, e, t) = 0 \/ e.val) /\ (NoArguments(n, e, t, dd, rest) \/ e.val)

\* the text taken from the positional arguments even when -n is given
NewTextNoFlag(n, e, t, dd, rest, ed) ==
    IF NoArguments(n, e, t, dd, rest) \/ e.val THEN ed.text
    ELSE Join(rest, <<" ">>)

\* the text of the note the new branch builds; ed is the editor's file
NewText(n, e, t, dd, rest, ed) ==
    IF NFlag(n, e, t) = 0 \/ e.val
    THEN IF NoArguments(n, e, t, dd, rest) \/ e.val THEN ed.text
         ELSE Join(rest, <<" ">>)
    ELSE n.val

\* the tags of the note the new branch builds
NewTags(t) ==
    LET newTagList == IF t.set THEN TagSet(t.val) ELSE <<>> IN
    IF Len(newTagList) = 0 THEN TagSet(Generic) ELSE newTagList

\* One run of "notectl new".  n, e, t are the parsed flags (set, val), rest
\* the positional arguments, dd whether a "--" terminator was given, ed the
\* outcome of the editor, io the outcome of the INSERT statement.
NewCmd(n, e, t, dd, rest, ed, io) ==
    LET a == [n |-> n, e |-> e, t |-> t, dd |-> dd, rest |-> rest, ed |-> ed, io |-> io]
        text == NewText(n, e, t, dd, rest, ed)
        tags == NewTags(t)
        nt == [built |-> TRUE, Text |-> text, Tags |-> tags]
        useEd == NewUsesEditor(n, e, t, dd, rest)
    IN
    IF NewUsage(n, e, t)
    THEN \* PrintDefaults, os.Exit(1): the handle is left open
         /\ Observe("new", a, ExitUsage, 1, 0, FALSE, NoNote, FALSE, <<>>, <<>>)
         /\ UNCHANGED <<rows, now, issued, dropped>>
    ELSE IF useEd /\ ~ed.ok
    THEN \* captureFromEditor returned an error: panic(err)
         /\ Observe("new", a, ExitPanic, 1, 0, TRUE, NoNote, FALSE, <<>>, <<>>)
         /\ UNCHANGED <<rows, now, issued, dropped>>
    ELSE IF io = "prepare"
    THEN \* Prepare failed: statement is nil and statement.Exec panics
         /\ Observe("new", a, ExitPanic, 1, 0, useEd, nt, FALSE, <<>>, <<>>)
         /\ UNCHANGED <<rows, now, issued, dropped>>
    ELSE IF io = "exec"
    THEN \* Exec failed: its error is dropped, Save returns nil
         /\ Observe("new", a, ExitOk, 1, 1, useEd, nt, FALSE, <<>>, <<>>)
         /\ UNCHANGED <<rows, now, issued, dropped>>
    ELSE /\ rows' = Append(rows, SaveRow(rows, now, text, tags))
         /\ issued' = Append(issued, [id |-> NextRowid(rows), fresh |-> dropped])
         /\ dropped' = FALSE
         /\ Observe("new", a, ExitOk, 1, 1, useEd, nt, TRUE, <<>>, <<>>)
         /\ UNCHANGED now

----------------------------------------------------------------------------
(* notectl show *)

\* the chain with the month filter tested before the day filter
ShowFilterMonthFirst(all, i, day, month, year, date) ==
    IF all THEN "all"
    ELSE IF i # -1 THEN "id"
    ELSE IF month # -1 THEN "month"
    ELSE IF day # -1 THEN "day"
    ELSE IF year # -1 THEN "year"
    ELSE IF date # <<>> THEN "date"
    ELSE "usage"

\* the if / else-if chain of the show branch: the first filter that is set,
\* an integer filter being set when it is not -1 and the date filter when
\* it is not empty
ShowFilter(all, i, day, month, year, date) ==
    IF all THEN "all"
    ELSE IF i # -1 THEN "id"
    ELSE IF day # -1 THEN "day"
    ELSE IF month # -1 THEN "month"
    ELSE IF year # -1 THEN "year"
    ELSE IF date # <<>> THEN "date"
    ELSE "usage"

\* One run of "notectl show".  The integer filters are -1 and the date
\* filter is empty when the flag was not given.  t2 is the clock at the
\* second time.Now() of showNoteByDay.
ShowCmd(all, i, day, month, year, date, usa, t2) ==
    LET a == [all |-> all, i |-> i, day |-> day, month |-> month, year |-> year,
              date |-> date, usa |-> usa]
        f == ShowFilter(all, i, day, month, year, date)
        Done(result) ==
            Observe("show", a, ExitOk, 1, 1, FALSE, NoNote, FALSE, <<f>>, result)
    IN
    /\ UNCHANGED <<rows, issued, dropped>>
    /\ now' = IF f = "day" THEN t2 ELSE now
    /\ IF f = "all" THEN Done(showAllNotes(rows))
       ELSE IF f = "id" THEN Done(showNoteByID(i, rows))
       ELSE IF f = "day" THEN Done(showNoteByDay(day, now, t2, rows))
       ELSE IF f = "month" THEN Done(showNoteByMonth(month, now, rows))
       ELSE IF f = "year" THEN Done(showNoteByYear(year, rows))
       ELSE IF f = "date"
       THEN IF DateIndexable(date)
            THEN Done(showNoteByDate(date, usa, rows))
            ELSE \* index out of range: panic before database.Query
                 Observe("show", a, ExitPanic, 1, 0, FALSE, NoNote, FALSE, <<>>, <<>>)
       ELSE \* PrintDefaults, os.Exit(1): the handle is left open
            Observe("show", a, ExitUsage, 1, 0, FALSE, NoNote, FALSE, <<>>, <<>>)

----------------------------------------------------------------------------
(* notectl delete *)

\* a confirmation that accepts the lower-case y only
ConfirmsLower(resp) == resp[1] = "y"

\* deleteAll drops the table when the first rune read from the console is
\* y or Y
Confirms(resp) == resp[1] = "y" \/ resp[1] = "Y"

\* One run of "notectl delete".  resp is what the user types at the
\* prompt, the empty string standing for end of input.
DeleteCmd(all, resp) ==
    LET a == [all |-> all, resp |-> resp] IN
    /\ UNCHANGED <<now, issued>>
    /\ IF ~all
       THEN \* PrintDefaults, os.Exit(1): the handle is left open
            /\ Observe("delete", a, ExitUsage, 1, 0, FALSE, NoNote, FALSE, <<>>, <<>>)
            /\ UNCHANGED <<rows, dropped>>
       ELSE IF Len(resp) = 0
       THEN \* ReadRune returns io.EOF: panic(err)
            /\ Observe("delete", a, ExitPanic, 1, 0, FALSE, NoNote, FALSE, <<>>, <<>>)
            /\ UNCHANGED <<rows, dropped>>
       ELSE IF Confirms(resp)
       THEN \* DROP TABLE notes, then createTableIfNotExist
            /\ rows' = <<>>
            /\ dropped' = TRUE
            /\ Observe("delete", a, ExitOk, 1, 1, FALSE, NoNote, FALSE, <<>>, <<>>)
       ELSE /\ Observe("delete", a, ExitOk, 1, 1, FALSE, NoNote, FALSE, <<>>, <<>>)
            /\ UNCHANGED <<rows, dropped>>

----------------------------------------------------------------------------
(* The clock. *)

\* time passes between invocations, up to the instant limit
TickTo(limit) ==
    /\ now < limit
    /\ now' = now + 1
    /\ UNCHANGED <<rows, issued, dropped, cmd, args, exit, opened, closed,
                   editor, note, stored, ran, out, prev, start>>

----------------------------------------------------------------------------
(* Inputs. *)

Unset == [set |-> FALSE, val |-> <<>>]

NoEditorFlag == [set |-> FALSE, val |-> FALSE]

\* -n: absent, given empty, given with a text
NoteFlags == {Unset, [set |-> TRUE, val |-> <<>>], [set |-> TRUE, val |-> <<"n">>]}

\* -e: absent, -e, -e=false
EditorFlags == {NoEditorFlag, [set |-> TRUE, val |-> TRUE], [set |-> TRUE, val |-> FALSE]}

\* -t: absent, "a,b", "a b"
TagFlags == {Unset, [set |-> TRUE, val |-> <<"a", ",", "b">>],
             [set |-> TRUE, val |-> <<"a", " ", "b">>]}

\* positional arguments
Rests == {<<>>, << <<"x">>, <<"y">> >>}

\* the editor fails, or leaves a file holding "e"
Editors == {[ok |-> FALSE, text |-> <<>>], [ok |-> TRUE, text |-> <<"e">>]}

\* answers to the delete prompt: end of input, y, Y, n, yes, x
Responses == {<<>>, <<"y">>, <<"Y">>, <<"n">>, <<"y", "e", "s">>, <<"x">>}

\* the clock at a second reading: the same instant or the next
Later(limit) == {t \in {now, now + 1} : t <= limit}

\* strconv.Itoa for a natural number: how a user writes a date field
RECURSIVE Itoa(_)
Itoa(k) ==
    IF k < 10 THEN <<DigitChars[k + 1]>>
    ELSE Itoa(k \div 10) \o <<DigitChars[(k % 10) + 1]>>

\* the date a/b/c
DateStr(a, b, c) == Itoa(a) \o <<"/">> \o Itoa(b) \o <<"/">> \o Itoa(c)

\* the same with the first two fields zero-padded to two digits, as in
\* 01/02/2023
DatePadded(a, b, c) ==
    (IF a < 10 THEN <<"0">> ELSE <<>>) \o Itoa(a) \o <<"/">> \o
    (IF b < 10 THEN <<"0">> ELSE <<>>) \o Itoa(b) \o <<"/">> \o Itoa(c)

\* days and months of the calendar, and the years the clock visits
Days == 1..DaysPerMonth

Months == 1..MonthsPerYear

Years == {Year(t) : t \in 0..MaxTime}

\* date strings: every day/month/year in both field orders, one padded
\* date, and malformed ones (one segment, two segments, a non-numeric field)
WellFormedDates ==
    {DateStr(a, b, y) : a \in Days \cup Months, b \in Days \cup Months, y \in Years}

MalformedDates ==
    {<<"1">>, <<"1", "/", "2">>, <<"x">> \o <<"/">> \o DateStr(1, 2, BaseYear)}

Dates == WellFormedDates \cup {DatePadded(1, 2, BaseYear)} \cup MalformedDates

\* options of show: every combination of set and unset filters, and every
\* date with and without -usa when no other filter is set
ShowOptions ==
    [all : BOOLEAN, i : {-1, 1}, day : {-1, 1, DaysPerMonth},
     month : {-1, MonthsPerYear}, year : {-1, BaseYear},
     date : {<<>>, <<"1">>}, usa : {FALSE}]
    \cup
    [all : {FALSE}, i : {-1}, day : {-1}, month : {-1}, year : {-1},
     date : Dates, usa : BOOLEAN]

----------------------------------------------------------------------------
(* Specifications. *)

Init ==
    /\ rows = <<>>
    /\ now = 0
    /\ issued = <<>>
    /\ dropped = FALSE
    /\ cmd = "none"
    /\ args = NoArgs
    /\ exit = ExitOk
    /\ opened = 0
    /\ closed = 0
    /\ editor = FALSE
    /\ note = NoNote
    /\ stored = FALSE
    /\ ran = <<>>
    /\ out = <<>>
    /\ prev = <<>>
    /\ start = 0

\* the table and the history have room for one more note
Room == Len(rows) < MaxRows /\ Len(issued) < MaxIssued

\* new with -n or free text, on a working database
NewPlain ==
    /\ Room
    /\ \E n \in NoteFlags, rest \in {<<>>, << <<"x">> >>}, ed \in Editors :
          NewCmd(n, NoEditorFlag, Unset, FALSE, rest, ed, "ok")

\* new with every combination of options, on a working database
NewAny ==
    /\ Room
    /\ \E n \in NoteFlags, e \in EditorFlags, t \in TagFlags, dd \in BOOLEAN,
          rest \in Rests, ed \in Editors :
          NewCmd(n, e, t, dd, rest, ed, "ok")

\* new with free text, on a database whose INSERT may fail
NewFaulty ==
    /\ Room
    /\ \E rest \in {<< <<"x">> >>, << <<"x">>, <<"y">> >>},
          io \in {"ok", "prepare", "exec"} :
          NewCmd(Unset, NoEditorFlag, Unset, FALSE, rest, [ok |-> TRUE, text |-> <<>>], io)

\* new with one word of free text, on a working database
NewWord ==
    /\ Room
    /\ NewCmd(Unset, NoEditorFlag, Unset, FALSE, << <<"x">> >>,
              [ok |-> TRUE, text |-> <<>>], "ok")

\* show -all, or show without a filter
ShowListing ==
    \E all \in BOOLEAN : ShowCmd(all, -1, -1, -1, -1, <<>>, FALSE, now)

\* show with every combination of options
ShowAny ==
    \E o \in ShowOptions, t2 \in Later(MaxTime) :
       ShowCmd(o.all, o.i, o.day, o.month, o.year, o.date, o.usa, t2)

Delete == \E all \in BOOLEAN, resp \in Responses : DeleteCmd(all, resp)

Tick == TickTo(MaxTimeNew)

TickShow == TickTo(MaxTime)

\* the life of the table: notes are added, listed and deleted
Next == NewPlain \/ ShowListing \/ Delete \/ Tick

Spec == Init /\ [][Next]_vars

\* the new command with all its options, at one instant of the clock
NextNew == NewAny \/ ShowListing

SpecNew == Init /\ [][NextNew]_vars

\* the show command with all its options
NextShow == NewWord \/ ShowAny \/ TickShow

SpecShow == Init /\ [][NextShow]_vars

\* the table on a database that may reject the INSERT
NextIO == NewFaulty \/ ShowListing \/ Delete \/ Tick

SpecIO == Init /\ [][NextIO]_vars

----------------------------------------------------------------------------
(* Properties. *)

\* the row the last invocation inserted
NewRow == rows[Len(rows)]

\* C1, as claimed: the id of every inserted note is greater than the id of
\* every note inserted before it, also across a drop of the table
C1_IdsNeverReused ==
    \A j \in 1..Len(issued), k \in 1..Len(issued) :
       j < k => issued[j].id < issued[k].id

\* C1, amended: between two confirmed delete -all, the id of every inserted
\* note is greater than the id of every note inserted before it in that
\* period, so the stored rows have distinct ids; the first note after a
\* confirmed delete -all gets id 1 again
C1_IdsIncreaseUntilDrop ==
    /\ \A j \in 1..Len(issued), k \in 1..Len(issued) :
          (j < k /\ \A m \in (j + 1)..k : ~issued[m].fresh)
             => issued[j].id < issued[k].id
    /\ \A k \in 1..Len(issued) : issued[k].fresh => issued[k].id = 1
    /\ \A j \in 1..Len(rows), k \in 1..Len(rows) : j # k => rows[j].id # rows[k].id

\* two notes were inserted, the table was dropped, and a third was inserted
C1_Witness ==
    \E k \in 3..Len(issued) :
       issued[k].fresh /\ ~issued[k - 1].fresh /\ issued[k - 1].id > issued[k - 2].id

\* the tag lists the model's -t values stand for
TagLists == {TagSet(t.val) : t \in TagFlags \ {Unset}} \cup {<<Generic>>}

\* C2, as claimed: after new, show -all lists the rows it listed before,
\* unchanged, and one new row; the new row has the note's text, and its
\* stored tags value stands for the note's tag list and for no other
C2_SaveThenListAddsInput ==
    (cmd = "new" /\ exit = ExitOk) =>
       /\ Len(showAllNotes(rows)) = Len(showAllNotes(prev)) + 1
       /\ SubSeq(showAllNotes(rows), 1, Len(prev)) = showAllNotes(prev)
       /\ NewRow.notetext = note.Text
       /\ \A tl \in TagLists : (TagString(tl) = NewRow.tags) <=> (tl = note.Tags)

\* C3, as claimed: delete -all empties the table for the answer y and leaves
\* it as it was for every other answer
C3_OnlyYDeletes ==
    (cmd = "delete" /\ args.all) =>
       IF args.resp = <<"y">> THEN rows = <<>> ELSE rows = prev

\* C3, amended: delete -all empties the table when the first character of
\* the answer is y or Y; for every other answer, n and end of input
\* included, and for delete without -all, the rows are what they were; a
\* show -all lists the rows of the table
C3_FirstRuneDecides ==
    /\ (cmd = "delete" /\ args.all) =>
          IF Len(args.resp) > 0 /\ args.resp[1] \in {"y", "Y"}
          THEN rows = <<>>
          ELSE rows = prev
    /\ (cmd = "delete" /\ ~args.all) => rows = prev
    /\ (cmd = "show" /\ args.all) => out = rows

\* a table with notes was emptied by the answer Y
C3_Witness ==
    cmd = "delete" /\ args.all /\ args.resp = <<"Y">> /\ Len(prev) > 0 /\ rows = <<>>

\* the first set filter in the order all, id, day, month, year, date
FirstSet ==
    IF args.all THEN <<"all">>
    ELSE IF args.i # -1 THEN <<"id">>
    ELSE IF args.day # -1 THEN <<"day">>
    ELSE IF args.month # -1 THEN <<"month">>
    ELSE IF args.year # -1 THEN <<"year">>
    ELSE IF args.date # <<>> THEN <<"date">>
    ELSE <<>>

\* the number of / in the date option
Slashes == Cardinality({k \in 1..Len(args.date) : args.date[k] = "/"})

\* C4, as claimed: show runs exactly the query of the first set filter, and
\* with no filter set it runs none and exits with status 1
C4_ExactlyOneQuery ==
    cmd = "show" =>
       /\ ran = FirstSet
       /\ FirstSet = <<>> => exit = ExitUsage

\* C4, amended: show runs exactly the query of the first set filter, except
\* that when that filter is the date and the date has fewer than three
\* /-separated fields the process aborts without running a query; with no
\* filter set it runs none and exits with status 1
C4_OneQueryOrAbort ==
    cmd = "show" =>
       IF FirstSet = <<"date">> /\ Slashes < 2
       THEN ran = <<>> /\ exit = ExitPanic
       ELSE /\ ran = FirstSet
            /\ exit = IF FirstSet = <<>> THEN ExitUsage ELSE ExitOk

\* show ran the day query although the month filter was set too
C4_Witness ==
    /\ cmd = "show" /\ ran = <<"day">>
    /\ args.month # -1 /\ args.date # <<>> /\ Len(out) > 0

\* C5, as claimed: show -day d prints the notes of day d of the month and
\* year of the clock, and show -month m those of month m of the year of the
\* clock
C5_DayAndMonthUseClock ==
    /\ (cmd = "show" /\ ran = <<"day">>) =>
          out = SelectSeq(rows, LAMBDA r : /\ r.day = args.day
                                           /\ r.month = Month(start)
                                           /\ r.year = Year(start))
    /\ (cmd = "show" /\ ran = <<"month">>) =>
          out = SelectSeq(rows, LAMBDA r : r.month = args.month /\ r.year = Year(start))

\* C6: show -date d/m/y, and show -date m/d/y -usa, print exactly the notes
\* of day d, month m and year y, with or without leading zeros
C6_DateFormatsAgree ==
    \A d \in Days, m \in Months, y \in Years :
       ( /\ cmd = "show" /\ ran = <<"date">>
         /\ \/ ~args.usa /\ args.date \in {DateStr(d, m, y), DatePadded(d, m, y)}
            \/ args.usa /\ args.date \in {DateStr(m, d, y), DatePadded(m, d, y)} )
       => out = SelectSeq(rows, LAMBDA r : r.day = d /\ r.month = m /\ r.year = y)

\* a -usa date query printed a note whose day and month differ
C6_Witness ==
    /\ cmd = "show" /\ ran = <<"date">> /\ args.usa
    /\ Len(out) > 0 /\ out[1].day # out[1].month

\* C7, as claimed: a note inserted by new without -t has the one tag
\* generic and its row has tags = "generic"; no inserted note has an empty
\* tag list
C7_DefaultTagGeneric ==
    (cmd = "new" /\ stored) =>
       /\ Len(note.Tags) > 0
       /\ ~args.t.set => (note.Tags = <<Generic>> /\ NewRow.tags = Generic)

\* a flag was given to new
AnyFlag == args.n.set \/ args.e.set \/ args.t.set

\* the open-editor flag is set
EditorFlag == args.e.set /\ args.e.val

\* C8, as claimed: new launches the editor and takes its file as the text
\* when -n and -t are absent and there is no free text, or when -e is set;
\* every other new inserts a note whose text is the positional arguments
\* joined with single spaces
C8_TextIsFreeTextUnlessEditor ==
    cmd = "new" =>
       IF (~args.n.set /\ ~args.t.set /\ Len(args.rest) = 0) \/ EditorFlag
       THEN editor /\ (stored => note.Text = args.ed.text)
       ELSE stored /\ NewRow.notetext = Join(args.rest, <<" ">>)

\* C8, amended: when a flag is given, -e is not set and the -n text is
\* empty, new prints usage and exits with status 1 without a note.
\* Otherwise the editor is launched, and its file is the text, when -e is
\* set or when nothing at all follows "new"; with no flag but arguments the
\* text is the positional arguments joined with single spaces; with a
\* non-empty -n text and no -e the text is the -n text
C8_TextResolution ==
    cmd = "new" =>
       IF AnyFlag /\ ~EditorFlag /\ args.n.val = <<>>
       THEN exit = ExitUsage /\ ~editor /\ ~stored /\ rows = prev
       ELSE IF EditorFlag \/ (~AnyFlag /\ ~args.dd /\ Len(args.rest) = 0)
       THEN /\ editor
            /\ IF args.ed.ok
               THEN stored /\ NewRow.notetext = args.ed.text
               ELSE exit = ExitPanic /\ ~stored /\ rows = prev
       ELSE /\ ~editor /\ stored
            /\ NewRow.notetext =
                  IF AnyFlag THEN args.n.val ELSE Join(args.rest, <<" ">>)

\* a note was inserted whose text is two positional arguments
C8_Witness ==
    /\ cmd = "new" /\ stored /\ ~editor /\ ~AnyFlag
    /\ Len(args.rest) = 2 /\ NewRow.notetext = <<"x", " ", "y">>

\* C9, as claimed: a new that exits with status 0 has inserted its row
C9_InsertOrAbort ==
    (cmd = "new" /\ exit = ExitOk) =>
       (stored /\ Len(rows) = Len(prev) + 1 /\ NewRow.notetext = note.Text)

\* C10, as claimed: an invocation opens the handle at most once and has
\* closed it when the process exits, whatever the exit
C10_HandleClosedOnExit ==
    cmd # "none" => (opened <= 1 /\ closed = opened)

====
